---- MODULE Spec2Model ----
(***************************************************************************)
(* Secure agent scheduler: the planner (extractor + conflict guard), the    *)
(* token utility, the notifier gate and the two-step orchestrator           *)
(* (plan_event -> schedule_notification), as a state machine.               *)
(*                                                                         *)
(* Time is a single clock `now`, in seconds since midnight of day 0; one    *)
(* second is the clock's resolution.  A request text is represented by the  *)
(* groups the five regular-expression searches of the extractor find in it. *)
(***************************************************************************)
EXTENDS Integers, Sequences, FiniteSets, TLC

VARIABLES
    now,               \* the wall clock (datetime.now / utcnow)
    ticks,             \* how many times the clock has been seen to advance
    debug,             \* os.getenv("DEBUG") == "true"
    descope_client,    \* NotifierAgent.descope_client is not None
    scheduled_events,  \* PlannerAgent.scheduled_events (class attribute)
    audit,             \* the lines of the audit log file
    req,               \* the calls of Orchestrator.process_request
    direct,            \* a call of NotifierAgent.process made by another caller
    held,              \* the credential that caller got from get_descope_token
    extracted          \* a caller's calls of PlannerAgent.process: text, clock reading, draft, response

vars == <<now, ticks, debug, descope_client, scheduled_events, audit, req, direct, held,
         extracted>>

-----------------------------------------------------------------------------
(* Bounds of the model *)

MaxRequests == 2
MaxTicks == 1

(* Program constants *)

DefaultDurationMinutes == 60
DefaultReminderMinutes == 30
TokenLifetimeMinutes == 5

-----------------------------------------------------------------------------
(* Optional values: None, or a value *)

None == <<>>
Some(v) == <<v>>
IsSome(o) == o # None
Get(o) == o[1]

Requests == 1..MaxRequests
Users == {"u1", "u2"}

-----------------------------------------------------------------------------
(* Calendar arithmetic on the clock *)

Minute == 60
Hour == 60 * Minute
\* (mutation) a day of 48 hours
TwoDays == 48 * Hour

Day == 24 * Hour
StartOfClock == 10 * Hour
ClockSteps == {1, TokenLifetimeMinutes * Minute + 1}

\* datetime.isoformat(): the calendar fields of an instant
IsoFormat(t) == <<t \div Day, (t % Day) \div Hour, (t % Hour) \div Minute, t % Minute>>

\* datetime.fromisoformat(): the instant of the calendar fields
FromIsoFormat(s) == s[1] * Day + s[2] * Hour + s[3] * Minute + s[4]

\* (mutation) a replace that also resets the date
ReplaceDate(t, h, m) == h * Hour + m * Minute

\* datetime.replace(hour=h, minute=m, second=0, microsecond=0)
Replace(t, h, m) == (t \div Day) * Day + h * Hour + m * Minute

-----------------------------------------------------------------------------
(* Request texts: what the extractor's five searches find in each           *)

NoMatches == [tomorrow |-> FALSE, time |-> None, duration |-> None,
              title |-> None, reminder |-> None]

Texts == <<
    \* "Schedule team meeting tomorrow at 2 PM for 1 hour"
    [NoMatches EXCEPT !.tomorrow = TRUE,
                      !.time = Some([hour |-> 2, minute |-> None, pm |-> TRUE]),
                      !.duration = Some([n |-> 1, unit |-> "hour"]),
                      !.title = Some("team meeting")],
    \* "lunch with the team"
    NoMatches,
    \* "Plan review at 25 pm"
    [NoMatches EXCEPT !.time = Some([hour |-> 25, minute |-> None, pm |-> TRUE]),
                      !.title = Some("review")]
>>

TextIds == 1..Len(Texts)

-----------------------------------------------------------------------------
(* PlannerAgent._parse_schedule_request *)

\* (mutation) a conversion that depends on whether the planner was called before
ToMinutesDrifting(m) ==
    IF extracted = None THEN (IF m.unit = "hour" THEN m.n * 60 ELSE m.n)
    ELSE (IF m.unit = "hour" THEN m.n * 60 ELSE m.n) + 1

\* the unit conversion of the duration and reminder searches
ToMinutes(m) == IF m.unit = "hour" THEN m.n * 60 ELSE m.n

\* (mutation) a 12-hour rule that adds 12 to every pm hour
ClockHourEveryPm(m) == IF m.pm THEN m.hour + 12 ELSE m.hour

\* the hour of a clock-time match
ClockHour(m) == IF m.pm /\ m.hour < 12 THEN m.hour + 12 ELSE m.hour

ClockMinute(m) == IF IsSome(m.minute) THEN Get(m.minute) ELSE 0

\* datetime.replace raises ValueError for an hour or a minute out of range
ReplaceRaises(m) == ClockHour(m) > 23 \/ ClockMinute(m) > 59

\* _parse_schedule_request on a text with the matches `text`; `label` stands for
\* the text in the description
ParseText(text, label, t) ==
    LET base == t + Hour
        shifted == IF text.tomorrow THEN base + Day ELSE base
        raises == IsSome(text.time) /\ ReplaceRaises(Get(text.time))
        start == IF IsSome(text.time) /\ ~raises
                 THEN Replace(shifted, ClockHour(Get(text.time)), ClockMinute(Get(text.time)))
                 ELSE shifted
        duration == IF IsSome(text.duration) THEN ToMinutes(Get(text.duration))
                    ELSE DefaultDurationMinutes
        reminder == IF IsSome(text.reminder) THEN ToMinutes(Get(text.reminder))
                    ELSE DefaultReminderMinutes
    IN  [raised |-> raises,
         title |-> IF IsSome(text.title) THEN Get(text.title) ELSE "Meeting",
         start_time |-> IsoFormat(start),
         end_time |-> IsoFormat(start + duration * Minute),
         reminder_minutes |-> reminder,
         description |-> <<"Scheduled from user request: ", label>>]

\* _parse_schedule_request on the request text number id
ParseScheduleRequest(id, t) == ParseText(Texts[id], id, t)

\* (mutation) a notification time after the event
CalculateNotificationTimeAfter(event_time_str, minutes_before) ==
    IsoFormat(FromIsoFormat(event_time_str) + minutes_before * Minute)

\* PlannerAgent._calculate_notification_time
CalculateNotificationTime(event_time_str, minutes_before) ==
    IsoFormat(FromIsoFormat(event_time_str) - minutes_before * Minute)

-----------------------------------------------------------------------------
(* AgentResponse *)

Failure(msg) == [success |-> FALSE, data |-> None, error |-> msg]
Success(d) == [success |-> TRUE, data |-> Some(d), error |-> ""]

-----------------------------------------------------------------------------
(* PlannerAgent.process *)

\* ScheduleEvent(...): event_id is "evt_" and the clock reading at creation
ScheduleEvent(details, user_id, t) ==
    [event_id |-> <<"evt", t>>,
     title |-> details.title,
     description |-> details.description,
     start_time |-> details.start_time,
     end_time |-> details.end_time,
     user_id |-> user_id,
     status |-> "scheduled"]

\* the loop over scheduled_events: the stored events with the same start
ConflictsWith(event, events) ==
    {i \in 1..Len(events) : event.start_time = events[i].start_time}

\* The response of PlannerAgent.process on a text with the matches `text`, and
\* the list it leaves behind
PlanText(text, label, user_id, t, events) ==
    LET details == ParseText(text, label, t)
        event == ScheduleEvent(details, user_id, t)
    IN  IF details.raised
        THEN [response |-> Failure("Failed to process schedule request: hour must be in 0..23"),
              events |-> events]
        ELSE IF ConflictsWith(event, events) # {}
        THEN [response |-> Failure("An event is already scheduled at this time"),
              events |-> events]
        ELSE [response |-> Success([event |-> event,
                                    notification_required |-> TRUE,
                                    notification_time |->
                                        CalculateNotificationTime(event.start_time,
                                                                  details.reminder_minutes)]),
              events |-> Append(events, event)]

\* (mutation) a planner that replaces the list by the event it admits
PlannerProcessReplacing(id, user_id, t, events) ==
    LET out == PlanText(Texts[id], id, user_id, t, events)
    IN  [out EXCEPT !.events = IF out.response.success
                               THEN <<Get(out.response.data).event>>
                               ELSE events]

\* PlannerAgent.process on the request text number id
PlannerProcess(id, user_id, t, events) == PlanText(Texts[id], id, user_id, t, events)

-----------------------------------------------------------------------------
(* get_descope_token: the credential the token utility signs *)

\* (mutation) a credential that lives twice as long
LongLifetime == 2 * TokenLifetimeMinutes * Minute

\* timedelta(minutes=5)
Lifetime == TokenLifetimeMinutes * Minute

GetDescopeToken(audience, scopes, user_id, t) ==
    [kind |-> "jwt",
     signed |-> TRUE,
     sub |-> IF user_id = "" THEN "planner_agent_001" ELSE user_id,
     aud |-> audience,
     scopes |-> scopes,
     exp |-> t + Lifetime,
     iat |-> t]

\* Values of the "token" key that are no signed credential: None, "" and a
\* string that is no JWT, such as "demo_token"
NotAToken(kind) == [kind |-> kind, signed |-> FALSE, sub |-> "", aud |-> "",
                    scopes |-> {}, exp |-> 0, iat |-> 0]

-----------------------------------------------------------------------------
(* NotifierAgent *)

\* NotifierAgent.agent_id
NotifierAgentId == "notifier_001"

Channels == {"email", "sms", "push", "slack"}

\* NotifierAgent.required_scopes
RequiredScopes == [email |-> {"notifications:email:send"},
                   sms |-> {"notifications:sms:send"},
                   push |-> {"notifications:push:send"},
                   slack |-> {"notifications:slack:send"}]

RequiredFields == {"token", "event_id", "user_id", "title", "message", "notification_time"}

\* NotifierAgent.validate_input
NotifierValidateInput(input) == RequiredFields \subseteq input.fields

\* the claims _validate_token returns in debug mode
DebugClaims == [sub |-> "demo_user",
                scopes |-> {"notifications:email:send", "notifications:sms:send",
                            "notifications:push:send"},
                aud |-> Some("notifier_agent_001")]

\* the claims _validate_token returns when there is no Descope client
MockClaims == [sub |-> "mock_user", scopes |-> {"notifications:email:send"}, aud |-> None]

\* descope_client.validate_session: the claims of a credential whose signature
\* verifies and whose expiry has not passed; None for any other
ValidateSession(token, t) ==
    IF token.kind = "jwt" /\ token.signed /\ t < token.exp
    THEN Some([sub |-> token.sub, scopes |-> token.scopes, aud |-> Some(token.aud)])
    ELSE None

\* `not token`
Falsy(token) == token.kind \in {"none", "empty"}

\* (mutation) a _validate_token that verifies the credential when there is no
\* Descope client
ValidateTokenVerifying(token, t) ==
    IF debug THEN Some(DebugClaims)
    ELSE IF Falsy(token) THEN None
    ELSE ValidateSession(token, t)

\* NotifierAgent._validate_token
ValidateToken(token, t) ==
    IF debug THEN Some(DebugClaims)
    ELSE IF Falsy(token) THEN None
    ELSE IF ~descope_client THEN Some(MockClaims)
    ELSE ValidateSession(token, t)

\* (mutation) a scope check that asks for any granted scope
HasSomeScope(claims, notification_type) == claims.scopes # {}

\* NotifierAgent._has_required_scopes
HasRequiredScopes(claims, notification_type) ==
    /\ RequiredScopes[notification_type] # {}
    /\ RequiredScopes[notification_type] \subseteq claims.scopes

\* A call of NotifierAgent.process: where it is, the clock reading it ran at,
\* and its local variables
IdleCall == [stage |-> "idle", input |-> None, at |-> 0, validated |-> FALSE, claims |-> None,
             scope_checked |-> FALSE, scope_ok |-> FALSE, notification_id |-> None,
             response |-> None]

Returned(call, response) == [call EXCEPT !.stage = "RETURNED", !.response = Some(response)]

\* (mutation) a process that validates the credential before the keys
NotifierProcessTokenFirst(input, t) ==
    LET call == [IdleCall EXCEPT !.input = Some(input), !.at = t]
        claims == ValidateToken(input.token, t)
        checked == [call EXCEPT !.validated = TRUE, !.claims = claims]
    IN  IF claims = None
        THEN Returned(checked, Failure("Invalid or expired token"))
        ELSE IF ~NotifierValidateInput(input)
        THEN Returned(checked, Failure("Invalid input data"))
        ELSE IF ~HasRequiredScopes(Get(claims), input.notification_type)
        THEN Returned([checked EXCEPT !.scope_checked = TRUE],
                      Failure("Insufficient permissions"))
        ELSE [checked EXCEPT !.stage = "SENDING", !.scope_checked = TRUE,
                             !.scope_ok = TRUE, !.notification_id = Some(<<"notif", t>>)]

\* NotifierAgent.process up to the await of _send_notification's sleep
NotifierProcess(input, t) ==
    LET call == [IdleCall EXCEPT !.input = Some(input), !.at = t]
        claims == ValidateToken(input.token, t)
        checked == [call EXCEPT !.validated = TRUE, !.claims = claims]
    IN  IF ~NotifierValidateInput(input)
        THEN Returned(call, Failure("Invalid input data"))
        ELSE IF claims = None
        THEN Returned(checked, Failure("Invalid or expired token"))
        ELSE IF ~HasRequiredScopes(Get(claims), input.notification_type)
        THEN Returned([checked EXCEPT !.scope_checked = TRUE],
                      Failure("Insufficient permissions"))
        ELSE [checked EXCEPT !.stage = "SENDING", !.scope_checked = TRUE,
                             !.scope_ok = TRUE, !.notification_id = Some(<<"notif", t>>)]

\* NotifierAgent.process from the end of the sleep to its return
NotifierSent(call, t) ==
    Returned(call, Success([notification_id |-> Get(call.notification_id),
                            status |-> "sent",
                            sent_at |-> IsoFormat(t),
                            recipients |-> [i \in DOMAIN Get(call.input).recipients |->
                                               Get(call.input).recipients[i].id]]))

-----------------------------------------------------------------------------
(* log_action: the line it appends, when the write succeeds *)

\* (mutation) a record that always reports success
AuditEntryOfSuccess(action, response) == [action |-> action, success |-> TRUE]

AuditEntry(action, response) == [action |-> action, success |-> response.success]

\* str(e) of the OSError that open() or write() raises
AuditError == "[Errno 13] Permission denied: 'audit.log'"

-----------------------------------------------------------------------------
(* Orchestrator.process_request *)

\* the dict returned when workflow.ainvoke returns `state`
Completed(state) ==
    [success |-> TRUE, event |-> state.event, notification |-> state.notification,
     error |-> "", status |-> "completed"]

\* the dict returned when workflow.ainvoke raises an exception e, msg = str(e)
Failed(msg) ==
    [success |-> FALSE, event |-> None, notification |-> None,
     error |-> msg, status |-> "failed"]

\* A call of process_request: the node it is at (PLAN: before plan_event,
\* NOTIFY: before schedule_notification, SENDING: in the notifier's sleep), its
\* workflow state, the local variables of its nodes and the dict it returned.
\* `start` and `clash` record what the call's text resolved to when the planner
\* ran, and whether a stored event had that start then.
NewRequest ==
    [pc |-> "PLAN", user_request |-> 0, user_id |-> "",
     start |-> None, clash |-> FALSE, planned |-> None,
     event |-> None, notification_required |-> FALSE, notification_time |-> None,
     notification |-> None, token |-> None, gate |-> IdleCall, result |-> None]

\* The Orchestrator objects of the process, each with its own PlannerAgent
\* object; the calls of process_request alternate between them
Instances == 1..2
InstanceOf(r) == (r % 2) + 1

\* self.scheduled_events of the PlannerAgent of an Orchestrator object: no
\* object assigns the attribute, so each reads the list of the class
SharedEvents(instance) == scheduled_events

Init ==
    /\ now = StartOfClock
    /\ ticks = 0
    /\ debug \in BOOLEAN
    /\ descope_client \in BOOLEAN
    /\ scheduled_events = <<>>
    /\ audit = <<>>
    /\ req = [r \in Requests |-> NewRequest]
    /\ direct = IdleCall
    /\ held = None
    /\ extracted = None

\* The clock advances
Tick(d) ==
    /\ ticks < MaxTicks
    /\ now' = now + d
    /\ ticks' = ticks + 1
    /\ UNCHANGED <<debug, descope_client, scheduled_events, audit, req, direct, held, extracted>>

\* (mutation) a node whose exception leaves the call waiting, with no result
RaiseAndWait(call, msg) == [call EXCEPT !.pc = "WAITING"]

\* (mutation) an exception that process_request does not catch
RaiseUncaught(call, msg) == [call EXCEPT !.pc = "FAILED"]

\* the state a node of the workflow leaves when it raises an exception, which
\* process_request catches
Raise(call, msg) == [call EXCEPT !.pc = "FAILED", !.result = Some(Failed(msg))]

\* (mutation) a plan_event node that gives the event of the state a new id
PlanOutcomeNewId(call, response, logged) ==
    IF ~logged THEN Raise(call, AuditError)
    ELSE IF ~response.success
    THEN Raise(call, "Failed to plan event: " \o response.error)
    ELSE [call EXCEPT !.pc = "NOTIFY",
                      !.event = Some([Get(response.data).event EXCEPT
                                         !.event_id = <<"evt", 0>>]),
                      !.notification_required = Get(response.data).notification_required,
                      !.notification_time = Some(Get(response.data).notification_time)]

\* (mutation) a plan_event node that does not raise when the planner failed
PlanOutcomeNoRaise(call, response, logged) ==
    IF ~logged THEN Raise(call, AuditError)
    ELSE IF ~response.success THEN [call EXCEPT !.pc = "NOTIFY"]
    ELSE [call EXCEPT !.pc = "NOTIFY",
                      !.event = Some(Get(response.data).event),
                      !.notification_required = Get(response.data).notification_required,
                      !.notification_time = Some(Get(response.data).notification_time)]

\* Orchestrator._plan_event after planner.process returned `response` and
\* log_action was called (logged: the write succeeded)
PlanOutcome(call, response, logged) ==
    IF ~logged THEN Raise(call, AuditError)
    ELSE IF ~response.success
    THEN Raise(call, "Failed to plan event: " \o response.error)
    ELSE [call EXCEPT !.pc = "NOTIFY",
                      !.event = Some(Get(response.data).event),
                      !.notification_required = Get(response.data).notification_required,
                      !.notification_time = Some(Get(response.data).notification_time)]

\* process_request(user_request, user_id) up to the end of the plan_event node:
\* planner.process, log_action, and the node's outcome.  The calls are numbered
\* in the order their plan_event nodes run.
PlanEvent(r, user_request, user_id) ==
    /\ req[r].pc = "PLAN"
    /\ \A q \in Requests : q < r => req[q].pc # "PLAN"
    /\ LET details == ParseScheduleRequest(user_request, now)
           stored == SharedEvents(InstanceOf(r))
           out == PlannerProcess(user_request, user_id, now, stored)
           call == [req[r] EXCEPT
                       !.user_request = user_request,
                       !.user_id = user_id,
                       !.planned = Some(out.response),
                       !.start = IF details.raised THEN None ELSE Some(details.start_time),
                       !.clash = /\ ~details.raised
                                 /\ \E i \in DOMAIN stored :
                                        stored[i].start_time = details.start_time]
       IN  \E logged \in BOOLEAN :
             /\ scheduled_events' = out.events
             /\ audit' = IF logged
                         THEN Append(audit, AuditEntry("planner_agent.process", out.response))
                         ELSE audit
             /\ req' = [req EXCEPT ![r] = PlanOutcome(call, out.response, logged)]
    /\ UNCHANGED <<now, ticks, debug, descope_client, direct, held, extracted>>

\* (mutation) a notification_data dict with the event's title as its title
NotificationDataPlainTitle(event, notification_time, token) ==
    [fields |-> RequiredFields \cup {"recipients", "metadata"},
     token |-> token,
     event_id |-> event.event_id,
     user_id |-> event.user_id,
     title |-> event.title,
     notification_time |-> notification_time,
     notification_type |-> "email",
     recipients |-> <<[id |-> event.user_id, type |-> "user"]>>]

\* (mutation) a notification_data dict for the sms channel
NotificationDataSms(event, notification_time, token) ==
    [fields |-> RequiredFields \cup {"recipients", "metadata", "notification_type"},
     token |-> token,
     event_id |-> event.event_id,
     user_id |-> event.user_id,
     title |-> "Reminder: " \o event.title,
     notification_time |-> notification_time,
     notification_type |-> "sms",
     recipients |-> <<[id |-> event.user_id, type |-> "user"]>>]

\* the notification_data dict of _schedule_notification
NotificationData(event, notification_time, token) ==
    [fields |-> RequiredFields \cup {"recipients", "metadata"},
     token |-> token,
     event_id |-> event.event_id,
     user_id |-> event.user_id,
     title |-> "Reminder: " \o event.title,
     notification_time |-> notification_time,
     notification_type |-> "email",
     recipients |-> <<[id |-> event.user_id, type |-> "user"]>>]

\* (mutation) a schedule_notification node that returns the state without the
\* notifier's result
NotifyOutcomeNoPayload(call, gate, logged) ==
    LET response == Get(gate.response)
    IN  IF ~logged THEN Raise([call EXCEPT !.gate = gate], AuditError)
        ELSE IF ~response.success
        THEN Raise([call EXCEPT !.gate = gate],
                   "Failed to schedule notification: " \o response.error)
        ELSE LET state == [call EXCEPT !.gate = gate]
             IN  [state EXCEPT !.pc = "DONE", !.result = Some(Completed(state))]

\* (mutation) a schedule_notification node that runs again when the audit
\* write failed
NotifyOutcomeRetry(call, gate, logged) ==
    LET response == Get(gate.response)
    IN  IF ~logged THEN [call EXCEPT !.gate = gate, !.pc = "NOTIFY"]
        ELSE IF ~response.success
        THEN Raise([call EXCEPT !.gate = gate],
                   "Failed to schedule notification: " \o response.error)
        ELSE LET state == [call EXCEPT !.gate = gate, !.notification = response.data]
             IN  [state EXCEPT !.pc = "DONE", !.result = Some(Completed(state))]

\* Orchestrator._schedule_notification after notifier.process returned and
\* log_action was called
NotifyOutcome(call, gate, logged) ==
    LET response == Get(gate.response)
    IN  IF ~logged THEN Raise([call EXCEPT !.gate = gate], AuditError)
        ELSE IF ~response.success
        THEN Raise([call EXCEPT !.gate = gate],
                   "Failed to schedule notification: " \o response.error)
        ELSE LET state == [call EXCEPT !.gate = gate, !.notification = response.data]
             IN  [state EXCEPT !.pc = "DONE", !.result = Some(Completed(state))]

\* The schedule_notification node up to the notifier's sleep
ScheduleNotification(r) ==
    /\ req[r].pc = "NOTIFY"
    /\ IF ~req[r].notification_required
       THEN /\ req' = [req EXCEPT ![r] = [@ EXCEPT !.pc = "DONE",
                                                   !.result = Some(Completed(req[r]))]]
            /\ audit' = audit
       ELSE LET event == Get(req[r].event)
                token == GetDescopeToken("notifier_agent_001",
                                         {"notifications:email:send"}, event.user_id, now)
                data == NotificationData(event, Get(req[r].notification_time), token)
                gate == NotifierProcess(data, now)
                call == [req[r] EXCEPT !.token = Some(token)]
            IN  IF gate.stage = "SENDING"
                THEN /\ req' = [req EXCEPT ![r] = [call EXCEPT !.pc = "SENDING", !.gate = gate]]
                     /\ audit' = audit
                ELSE \E logged \in BOOLEAN :
                       /\ req' = [req EXCEPT ![r] = NotifyOutcome(call, gate, logged)]
                       /\ audit' = IF logged
                                   THEN Append(audit, AuditEntry("notifier_agent.process",
                                                                 Get(gate.response)))
                                   ELSE audit
    /\ UNCHANGED <<now, ticks, debug, descope_client, scheduled_events, direct, held, extracted>>

\* The schedule_notification node from the end of the notifier's sleep
NotificationSent(r) ==
    /\ req[r].pc = "SENDING"
    /\ LET gate == NotifierSent(req[r].gate, now)
       IN  \E logged \in BOOLEAN :
             /\ req' = [req EXCEPT ![r] = NotifyOutcome(req[r], gate, logged)]
             /\ audit' = IF logged
                         THEN Append(audit, AuditEntry("notifier_agent.process",
                                                       Get(gate.response)))
                         ELSE audit
    /\ UNCHANGED <<now, ticks, debug, descope_client, scheduled_events, direct, held, extracted>>

-----------------------------------------------------------------------------
(* NotifierAgent.process called by a caller other than the orchestrator *)

\* the scope lists a caller asks get_descope_token for
ScopeChoices == {{}, {"notifications:email:send"},
                 {"notifications:sms:send", "notifications:slack:send"}}

\* a credential whose signature does not verify: a tampered or self-made JWT
Forged(scopes, t) ==
    [GetDescopeToken("notifier_agent_001", scopes, "test_user_001", t) EXCEPT !.signed = FALSE]

\* the values a caller can put under "token"
TokenChoices ==
    {NotAToken("none"), NotAToken("empty"), NotAToken("opaque")}
        \cup {Forged(scopes, now) : scopes \in ScopeChoices}
        \cup {held[i] : i \in DOMAIN held}

AllFields == RequiredFields \cup {"notification_type", "recipients", "metadata"}

\* the keys a caller's dict has
FieldChoices == {AllFields, AllFields \ {"token"}, AllFields \ {"message"}}

\* the input dict of test_individual_agents, with the caller's token, channel and keys
DirectInput(token, channel, fields) ==
    [fields |-> fields,
     token |-> token,
     event_id |-> "test_event_123",
     user_id |-> "test_user_001",
     title |-> "Test Notification",
     notification_time |-> IsoFormat(StartOfClock),
     notification_type |-> channel,
     recipients |-> <<[id |-> "test@example.com", type |-> "email"]>>]

\* The caller gets a credential from the token utility
IssueToken(scopes) ==
    /\ direct.stage # "SENDING"
    /\ held' = Some(GetDescopeToken("notifier_agent_001", scopes, "test_user_001", now))
    /\ UNCHANGED <<now, ticks, debug, descope_client, scheduled_events, audit, req, direct, extracted>>

\* The caller calls NotifierAgent.process: the call up to the notifier's sleep
DirectCall(token, channel, fields) ==
    /\ direct.stage # "SENDING"
    /\ direct' = NotifierProcess(DirectInput(token, channel, fields), now)
    /\ UNCHANGED <<now, ticks, debug, descope_client, scheduled_events, audit, req, held, extracted>>

\* The caller's call from the end of the notifier's sleep to its return
DirectSent ==
    /\ direct.stage = "SENDING"
    /\ direct' = NotifierSent(direct, now)
    /\ UNCHANGED <<now, ticks, debug, descope_client, scheduled_events, audit, req, held, extracted>>

-----------------------------------------------------------------------------
(* The pipeline: concurrent calls of Orchestrator.process_request *)

Next ==
    \/ Tick(1)
    \/ \E r \in Requests, text \in TextIds, user_id \in Users : PlanEvent(r, text, user_id)
    \/ \E r \in Requests : ScheduleNotification(r)
    \/ \E r \in Requests : NotificationSent(r)

Spec == Init /\ [][Next]_vars

(* The gate: calls of NotifierAgent.process with a caller's own input *)

GateNext ==
    \/ \E d \in ClockSteps : Tick(d)
    \/ \E scopes \in ScopeChoices : IssueToken(scopes)
    \/ \E token \in TokenChoices, channel \in Channels, fields \in FieldChoices :
          DirectCall(token, channel, fields)
    \/ DirectSent

GateSpec == Init /\ [][GateNext]_vars

(* The pipeline under the event loop's scheduling: a call whose next node can
   run is run, and the notifier's sleep ends *)

LiveSpec ==
    /\ Spec
    /\ \A r \in Requests :
          /\ WF_vars(\E text \in TextIds, user_id \in Users : PlanEvent(r, text, user_id))
          /\ WF_vars(ScheduleNotification(r))
          /\ WF_vars(NotificationSent(r))

-----------------------------------------------------------------------------
(* The planner alone: PlannerAgent.process, and with it _parse_schedule_request,
   on what the extractor's searches can find *)

\* the largest integer of a duration or reminder match
MaxAmount == 1

\* (\d{1,2}):?(\d{2})?\s*(am|pm|AM|PM): the hours, minutes and marker of a match
TimeMatches ==
    {[hour |-> h, minute |-> m, pm |-> p] :
        h \in 0..12 \cup {23, 25}, m \in {None, Some(30), Some(75)}, p \in BOOLEAN}

\* (\d+)\s*(minute|hour|hr): the integer and unit of a match
AmountMatches == {[n |-> n, unit |-> u] : n \in 0..MaxAmount, u \in {"minute", "hour", "hr"}}

\* the texts, by what the searches find in them
TextChoices ==
    [tomorrow : BOOLEAN,
     time : {None} \cup {Some(m) : m \in TimeMatches},
     duration : {None} \cup {Some(m) : m \in AmountMatches},
     title : {None, Some("team meeting")},
     reminder : {None} \cup {Some(m) : m \in AmountMatches}]

\* the clock readings the planner is called at: also one late in the day, when
\* now + 1 hour is the next day
PlannerClockSteps == ClockSteps \cup {13 * Hour}

\* A call of PlannerAgent.process made by a caller other than the orchestrator,
\* on some text: the dict _parse_schedule_request returned (None when
\* datetime.replace raised) and the planner's response
Extract ==
    /\ extracted = None
    /\ \E text \in TextChoices :
          LET details == ParseText(text, text, now)
              out == PlanText(text, text, "test_user_001", now, scheduled_events)
          IN  /\ extracted' = Some([text |-> text, at |-> now,
                                    draft |-> IF details.raised THEN None ELSE Some(details),
                                    response |-> out.response,
                                    again |-> None])
              /\ scheduled_events' = out.events
    /\ UNCHANGED <<now, ticks, debug, descope_client, audit, req, direct, held>>

\* The caller calls PlannerAgent.process a second time with the same text
ExtractAgain ==
    /\ IsSome(extracted)
    /\ Get(extracted).again = None
    /\ LET text == Get(extracted).text
           details == ParseText(text, text, now)
           out == PlanText(text, text, "test_user_001", now, scheduled_events)
       IN  /\ extracted' = Some([Get(extracted) EXCEPT !.again =
                                    Some([at |-> now,
                                          draft |-> IF details.raised THEN None
                                                    ELSE Some(details),
                                          response |-> out.response])])
           /\ scheduled_events' = out.events
    /\ UNCHANGED <<now, ticks, debug, descope_client, audit, req, direct, held>>

ExtractNext ==
    \/ \E d \in PlannerClockSteps : Tick(d)
    \/ Extract
    \/ ExtractAgain

\* the planner reads neither flag of the notifier
ExtractInit == Init /\ ~debug /\ ~descope_client

ExtractSpec == ExtractInit /\ [][ExtractNext]_vars

-----------------------------------------------------------------------------
(* Properties *)

Terminal(r) == req[r].pc \in {"DONE", "FAILED"}

\* the planner admitted the call's event (planner.process returned success)
PlanSucceeded(call) == IsSome(call.planned) /\ Get(call.planned).success

\* the error process_request returns for a start that is taken
PlanConflictError == "Failed to plan event: An event is already scheduled at this time"

\* the calls of NotifierAgent.process, the orchestrator's and the other caller's
GateCalls == {direct} \cup {req[r].gate : r \in Requests}

\* the call reached _send_notification
Dispatched(call) ==
    call.stage = "SENDING" \/ (IsSome(call.response) /\ Get(call.response).success)

\* the call returned a notification result with status sent
SentResult(call) ==
    /\ IsSome(call.response)
    /\ Get(call.response).success
    /\ Get(Get(call.response).data).status = "sent"

\* the credential is one the authority signed and has not expired at t
Verified(token, t) == token.kind = "jwt" /\ token.signed /\ t < token.exp

\* C1: conflict law.  A call of process_request whose text resolved to the start
\* of an event that was stored when its planner ran returns the conflict error;
\* a call whose start no stored event had has its event in scheduled_events and
\* returns success.
C1_ConflictLaw ==
    \A r \in Requests :
        (Terminal(r) /\ IsSome(req[r].start)) =>
            IF req[r].clash
            THEN /\ ~Get(req[r].result).success
                 /\ Get(req[r].result).error = PlanConflictError
            ELSE /\ \E i \in DOMAIN scheduled_events :
                        /\ scheduled_events[i].start_time = Get(req[r].start)
                        /\ scheduled_events[i].user_id = req[r].user_id
                 /\ Get(req[r].result).success

\* the calls whose text resolved to the start s
SameStart(s) == {r \in Requests : IsSome(req[r].start) /\ Get(req[r].start) = s}

\* C2: under every interleaving of the calls' nodes, scheduled_events never holds
\* two events with the same start; of the calls that resolved to one start,
\* exactly one was admitted, and every other ended FAILED and returned the
\* conflict error.
C2_NoDoubleBooking ==
    /\ \A i, j \in DOMAIN scheduled_events :
          i # j => scheduled_events[i].start_time # scheduled_events[j].start_time
    /\ \A r \in Requests :
          IsSome(req[r].start) =>
              LET same == SameStart(Get(req[r].start))
              IN  /\ Cardinality({q \in same : PlanSucceeded(req[q])}) = 1
                  /\ \A q \in same :
                        ~PlanSucceeded(req[q]) =>
                            /\ req[q].pc = "FAILED"
                            /\ ~Get(req[q].result).success
                            /\ Get(req[q].result).error = PlanConflictError

\* C3: a call of the notifier reaches dispatch, and returns status sent, only
\* after _validate_token returned claims and those claims hold the scope that
\* the call's channel requires.
C3_SentOnlyAfterChecks ==
    \A call \in GateCalls :
        Dispatched(call) =>
            /\ SentResult(call) \/ call.stage = "SENDING"
            /\ call.validated
            /\ IsSome(call.claims)
            /\ call.scope_checked
            /\ RequiredScopes[Get(call.input).notification_type] \subseteq Get(call.claims).scopes

\* C3 witness: the other caller's call returned status sent for the sms channel
C3_Witness ==
    /\ SentResult(direct)
    /\ Get(direct.input).notification_type = "sms"

\* C4: scope law (with the debug flag unset).  For a credential that passed
\* validation, the notifier accepts the draft exactly when the scopes granted in
\* the credential include the scope of the draft's channel, and answers
\* "Insufficient permissions" when they do not.
C4_ScopeLaw ==
    \A call \in GateCalls :
        (~debug /\ call.validated /\ IsSome(call.claims)) =>
            LET granted == Get(call.input).token.scopes
                required == RequiredScopes[Get(call.input).notification_type]
            IN  /\ Dispatched(call) <=> required \subseteq granted
                /\ ~(required \subseteq granted) =>
                       /\ IsSome(call.response)
                       /\ Get(call.response).error = "Insufficient permissions"

\* C5: credential law (with the debug flag unset).  A credential the authority
\* issued, validated after its expiry, fails validation with "Invalid or expired
\* token", and the call does not reach dispatch.
C5_ExpiredCredentialRejected ==
    \A call \in GateCalls :
        (~debug /\ call.validated) =>
            LET token == Get(call.input).token
            IN  (token.kind = "jwt" /\ token.signed /\ token.exp < call.at) =>
                    /\ call.claims = None
                    /\ ~Dispatched(call)
                    /\ Get(call.response) = Failure("Invalid or expired token")

\* a credential that is None, empty, no JWT, or a JWT whose signature does not verify
InvalidCredential(token) ==
    token.kind \in {"none", "empty", "opaque"} \/ (token.kind = "jwt" /\ ~token.signed)

\* C6: (with the debug flag unset) a credential that is absent, empty or whose
\* signature is invalid never yields claims and never reaches dispatch; when it
\* is validated the call answers "Invalid or expired token".
C6_InvalidCredentialRejected ==
    \A call \in GateCalls :
        (~debug /\ IsSome(call.input) /\ InvalidCredential(Get(call.input).token)) =>
            /\ call.claims = None
            /\ ~Dispatched(call)
            /\ call.validated => Get(call.response) = Failure("Invalid or expired token")

\* C7: with the debug flag unset, _validate_token returns claims only for a
\* credential that was verified: signed by the authority and not expired when
\* the call ran, whatever the caller's token, channel and keys.
C7_NoBypassWithoutDebug ==
    \A call \in GateCalls :
        (~debug /\ IsSome(call.claims)) => Verified(Get(call.input).token, call.at)

\* C8: a call of process_request that has ended has returned a dict: success
\* with the event, or failure with a non-empty error and no event; a call that
\* has not ended has returned nothing.
C8_StructuredResult ==
    \A r \in Requests :
        /\ Terminal(r) <=> IsSome(req[r].result)
        /\ Terminal(r) =>
              LET result == Get(req[r].result)
              IN  \/ /\ req[r].pc = "DONE"
                     /\ result.success
                     /\ IsSome(result.event)
                     /\ result.error = ""
                  \/ /\ req[r].pc = "FAILED"
                     /\ ~result.success
                     /\ result.error # ""
                     /\ result.event = None
                     /\ result.notification = None

\* C8 witness: one call returned success with its event, another failed in the
\* planner, both as dicts
C8_Witness ==
    \E r, q \in Requests :
        /\ req[r].pc = "DONE"
        /\ Get(req[r].result).event = req[r].event
        /\ req[q].pc = "FAILED"
        /\ ~PlanSucceeded(req[q])
        /\ Get(req[q].result).error = "Failed to plan event: " \o Get(req[q].planned).error

\* the state of the orchestrator's state machine a call is in
Stage(call) == IF call.pc = "SENDING" THEN "NOTIFY" ELSE call.pc

C9Step(r) ==
    LET a == req[r]
        b == req'[r]
    IN  /\ Stage(a) # Stage(b) =>
               <<Stage(a), Stage(b)>> \in {<<"PLAN", "NOTIFY">>, <<"PLAN", "FAILED">>,
                                          <<"NOTIFY", "DONE">>, <<"NOTIFY", "FAILED">>}
        /\ Stage(b) = "NOTIFY" => PlanSucceeded(b)
        /\ (b.token # a.token \/ b.gate # a.gate) =>
               (Stage(a) = "NOTIFY" /\ PlanSucceeded(a))
        /\ (a.pc = "PLAN" /\ b.pc = "FAILED") => (b.token = None /\ b.gate = IdleCall)
        /\ (a.pc # "DONE" /\ b.pc = "DONE") =>
               \/ ~a.notification_required
               \/ SentResult(b.gate)
        /\ a.pc \in {"DONE", "FAILED"} => b = a

\* C9: every step of a call follows PLAN -> NOTIFY -> DONE, PLAN -> FAILED or
\* NOTIFY -> FAILED; NOTIFY is entered only when the planner succeeded; a token
\* is issued and the notifier called only in NOTIFY; DONE is entered only when
\* the notifier returned sent or no notification was required; a call in DONE
\* or FAILED never changes.
C9_StateMachine == [][\A r \in Requests : C9Step(r)]_vars

\* C9 witness: one call failed in PLAN with no token issued and the notifier not
\* called, another went through NOTIFY to DONE
C9_Witness ==
    \E r, q \in Requests :
        /\ req[r].pc = "FAILED"
        /\ ~PlanSucceeded(req[r])
        /\ req[r].token = None
        /\ req[q].pc = "DONE"
        /\ SentResult(req[q].gate)

\* C10: a call that goes from PLAN to FAILED leaves scheduled_events as it was
C10_PlanFailureNeverCommits ==
    [][\A r \in Requests :
          (req[r].pc = "PLAN" /\ req'[r].pc = "FAILED") => scheduled_events' = scheduled_events]_vars

\* the call failed in its schedule_notification node: plan_event had stored its
\* event in the workflow state
FailedInNotify(call) == call.pc = "FAILED" /\ IsSome(call.event)

\* C11: no compensating rollback.  The event of a call that failed in NOTIFY
\* stays in scheduled_events, and a call planned after that failure whose text
\* resolves to the same start returns the conflict error.
C11_NoRollback ==
    [][\A r \in Requests :
          /\ FailedInNotify(req'[r]) =>
                \E i \in DOMAIN scheduled_events' : scheduled_events'[i] = Get(req'[r].event)
          /\ FailedInNotify(req[r]) =>
                \A q \in Requests :
                    (/\ req[q].pc = "PLAN"
                     /\ req'[q].pc # "PLAN"
                     /\ req'[q].start = req[r].start) =>
                        /\ ~Get(req'[q].result).success
                        /\ Get(req'[q].result).error = PlanConflictError]_vars

\* the dict process_request returns for a call when every audit record is written
OutcomeWhenLogged(call) ==
    IF ~PlanSucceeded(call)
    THEN Failed("Failed to plan event: " \o Get(call.planned).error)
    ELSE IF IsSome(call.gate.response) /\ ~Get(call.gate.response).success
    THEN Failed("Failed to schedule notification: " \o Get(call.gate.response).error)
    ELSE [success |-> TRUE, event |-> Some(Get(Get(call.planned).data).event),
          notification |-> call.gate.response, error |-> "", status |-> "completed"]

\* C12: a failing audit write never aborts the pipeline.  A call that has ended
\* returned what it returns when its audit records are written: the planner's
\* or the notifier's failure, or success with the planned event.
C12_AuditFailureNeverAborts ==
    \A r \in Requests :
        Terminal(r) =>
            LET result == Get(req[r].result)
                expected == OutcomeWhenLogged(req[r])
            IN  /\ result.success = expected.success
                /\ result.error = expected.error
                /\ result.event = expected.event

\* C13: the extractor never fails.  The planner of every call got a draft from
\* _parse_schedule_request, and no call failed in PLAN with the extractor's error.
C13_ExtractorNeverFails ==
    \A r \in Requests :
        IsSome(req[r].planned) =>
            /\ IsSome(req[r].start)
            /\ Get(req[r].planned).error
                   # "Failed to process schedule request: hour must be in 0..23"

\* C14: every draft the extractor returns and every stored event has its start
\* before its end.
C14_StartBeforeEnd ==
    /\ (IsSome(extracted) /\ IsSome(Get(extracted).draft)) =>
           FromIsoFormat(Get(Get(extracted).draft).start_time)
               < FromIsoFormat(Get(Get(extracted).draft).end_time)
    /\ \A i \in DOMAIN scheduled_events :
           FromIsoFormat(scheduled_events[i].start_time)
               < FromIsoFormat(scheduled_events[i].end_time)

\* C15: a call of process_request that returned success returned the event and
\* a notification result with status sent.
C15_SuccessCarriesNotification ==
    \A r \in Requests :
        (IsSome(req[r].result) /\ Get(req[r].result).success) =>
            LET result == Get(req[r].result)
            IN  /\ IsSome(result.event)
                /\ Get(result.event) = Get(Get(req[r].planned).data).event
                /\ IsSome(result.notification)
                /\ Get(result.notification).status = "sent"

\* C15 witness: a call returned success, with the notification sent to its user
C15_Witness ==
    \E r \in Requests :
        /\ IsSome(req[r].result)
        /\ Get(req[r].result).success
        /\ Get(Get(req[r].result).notification).recipients = <<req[r].user_id>>

\* the call's dict has every key of test_individual_agents' input
HasAllRequired(call) == IsSome(call.input) /\ RequiredFields \subseteq Get(call.input).fields

C17_EveryRequestEnds == \A r \in Requests : <>[](req[r].pc \in {"DONE", "FAILED"})

\* C17 witness: every call has ended, one of them in DONE after the notifier's
\* sleep and one in FAILED after its notifier was called
C17_Witness ==
    /\ \A r \in Requests : Terminal(r)
    /\ \E r \in Requests : req[r].pc = "DONE" /\ SentResult(req[r].gate)
    /\ \E r \in Requests : FailedInNotify(req[r]) /\ IsSome(req[r].token)

\* C18: any two stored events have different event ids.
C18_UniqueEventIds ==
    \A i, j \in DOMAIN scheduled_events :
        i # j => scheduled_events[i].event_id # scheduled_events[j].event_id

\* C19: the notifier checks the keys, then the credential, then the scope, then
\* dispatches, and answers with the error of the first check that fails.
C19_GateOrder ==
    \A call \in GateCalls :
        IsSome(call.input) =>
            /\ ~HasAllRequired(call) =>
                   /\ call.response = Some(Failure("Invalid input data"))
                   /\ ~call.validated
                   /\ ~call.scope_checked
            /\ (call.validated /\ call.claims = None) =>
                   /\ call.response = Some(Failure("Invalid or expired token"))
                   /\ ~call.scope_checked
            /\ call.validated => HasAllRequired(call)
            /\ call.scope_checked => (call.validated /\ IsSome(call.claims))
            /\ (call.scope_checked /\ ~call.scope_ok) =>
                   call.response = Some(Failure("Insufficient permissions"))
            /\ Dispatched(call) => (call.scope_checked /\ call.scope_ok)

\* C19 witness: with a Descope client, a call with a forged credential that
\* grants no scope, for the sms channel, answered with the credential's error
C19_Witness ==
    /\ ~debug
    /\ descope_client
    /\ IsSome(direct.input)
    /\ Get(direct.input).token.kind = "jwt"
    /\ ~Get(direct.input).token.signed
    /\ Get(direct.input).token.scopes = {}
    /\ Get(direct.input).notification_type = "sms"
    /\ direct.response = Some(Failure("Invalid or expired token"))

\* the audit log gained the line of `action` with the result `response`, or the
\* write failed and the call ended with the write's error
Emitted(b, action, response) ==
    \/ audit' = Append(audit, [action |-> action, success |-> response.success])
    \/ /\ audit' = audit
       /\ b.pc = "FAILED"
       /\ Get(b.result).error = AuditError

C20Step(r) ==
    LET a == req[r]
        b == req'[r]
    IN  /\ (a.pc = "PLAN" /\ b.pc # "PLAN") =>
               Emitted(b, "planner_agent.process", Get(b.planned))
        /\ (a.pc \in {"NOTIFY", "SENDING"} /\ b.pc \in {"DONE", "FAILED"}
                /\ a.notification_required) =>
               Emitted(b, "notifier_agent.process", Get(b.gate.response))

\* C20: the step in which a call leaves PLAN, and the step in which it leaves
\* NOTIFY after the notifier was called, writes the audit record of the stage's
\* result, success or failure, in that same step: the record is in the log when
\* the call is in its next state.  (When the write itself fails the call ends
\* FAILED with the write's error.)
C20_AuditEveryTransition == [][\A r \in Requests : C20Step(r)]_vars

\* C20 witness: the log holds the record of a failed plan, of a successful plan
\* and of a sent notification
C20_Witness ==
    /\ \E i \in DOMAIN audit : audit[i] = [action |-> "planner_agent.process", success |-> FALSE]
    /\ \E i \in DOMAIN audit : audit[i] = [action |-> "planner_agent.process", success |-> TRUE]
    /\ \E i \in DOMAIN audit : audit[i] = [action |-> "notifier_agent.process", success |-> TRUE]

\* the channel of the draft a call of process_request sent to the notifier
DraftChannel(call) == Get(call.gate.input).notification_type

\* C21: the credential the orchestrator gets in NOTIFY grants the scope that
\* the channel of the draft it sends requires, and the scope of no other channel.
C21_ScopedToChannel ==
    \A r \in Requests :
        IsSome(req[r].token) =>
            /\ IsSome(req[r].gate.input)
            /\ RequiredScopes[DraftChannel(req[r])] \subseteq Get(req[r].token).scopes
            /\ \A c \in Channels \ {DraftChannel(req[r])} :
                  RequiredScopes[c] \cap Get(req[r].token).scopes = {}

\* C21 witness: a call is in the notifier's sleep, its draft for the email
\* channel, its credential granting the email scope
C21_Witness ==
    \E r \in Requests :
        /\ req[r].pc = "SENDING"
        /\ DraftChannel(req[r]) = "email"
        /\ Get(req[r].token).scopes = {"notifications:email:send"}

\* C22: every credential issued in NOTIFY has the notifier's agent id as its
\* audience and the caller's id (the issuing agent's id when there is none) as
\* its subject.
C22_AudienceAndSubject ==
    \A r \in Requests :
        IsSome(req[r].token) =>
            /\ Get(req[r].token).aud = NotifierAgentId
            /\ Get(req[r].token).sub
                   = (IF req[r].user_id = "" THEN "planner_agent_001" ELSE req[r].user_id)

\* the credentials get_descope_token has issued
Issued ==
    {held[i] : i \in DOMAIN held}
        \cup {Get(req[r].token) : r \in {q \in Requests : IsSome(req[q].token)}}

\* C23: every issued credential expires after it was issued, and no more than
\* 5 minutes after.
C23_ExpiryAfterIssue ==
    \A token \in Issued :
        /\ token.exp > token.iat
        /\ token.exp - token.iat <= 5 * 60

\* C23 witness: a caller holds a credential issued after the clock advanced
C23_Witness ==
    /\ IsSome(held)
    /\ Get(held).iat > StartOfClock
    /\ Get(held).exp = Get(held).iat + 300

\* the minutes the spec gives a match: hour and hr are 60 minutes
SpecMinutes(m) == IF m.unit \in {"hour", "hr"} THEN m.n * 60 ELSE m.n

\* C24: unit conversion.  The duration and the reminder of a draft are the
\* integer of the match times 60 for the units hour and hr, and the integer for
\* the unit minute.
C24_UnitConversion ==
    (IsSome(extracted) /\ IsSome(Get(extracted).draft)) =>
        LET text == Get(extracted).text
            draft == Get(Get(extracted).draft)
        IN  /\ IsSome(text.duration) =>
                   FromIsoFormat(draft.end_time) - FromIsoFormat(draft.start_time)
                       = SpecMinutes(Get(text.duration)) * 60
            /\ IsSome(text.reminder) =>
                   draft.reminder_minutes = SpecMinutes(Get(text.reminder))

\* the clock-time match is one of a 12-hour clock
TwelveHourMatch(text) ==
    /\ IsSome(text.time)
    /\ Get(text.time).hour \in 1..12
    /\ IsSome(Get(text.time).minute) => Get(Get(text.time).minute) \in 0..59

\* C25: 12-hour rule.  For a clock-time match with hour 1..12 and minutes 0..59
\* the draft's start has hour h + 12 when the marker is pm and h < 12, and h
\* otherwise, the minutes of the match (0 when it has none), and 0 seconds.
C25_TwelveHourRule ==
    (IsSome(extracted) /\ TwelveHourMatch(Get(extracted).text)) =>
        LET m == Get(Get(extracted).text.time)
        IN  /\ IsSome(Get(extracted).draft)
            /\ Get(Get(extracted).draft).start_time[2]
                   = (IF m.pm /\ m.hour < 12 THEN m.hour + 12 ELSE m.hour)
            /\ Get(Get(extracted).draft).start_time[3]
                   = (IF IsSome(m.minute) THEN Get(m.minute) ELSE 0)
            /\ Get(Get(extracted).draft).start_time[4] = 0

\* C25 witness: "11:30 pm", extracted at a clock reading with seconds, starts
\* at 23:30:00
C25_Witness ==
    /\ IsSome(extracted)
    /\ Get(extracted).at % 60 # 0
    /\ Get(extracted).text.time = Some([hour |-> 11, minute |-> Some(30), pm |-> TRUE])
    /\ IsSome(Get(extracted).draft)
    /\ Get(Get(extracted).draft).start_time[2] = 23
    /\ Get(Get(extracted).draft).start_time[3] = 30
    /\ Get(Get(extracted).draft).start_time[4] = 0

\* the text matches none of the clock-time, duration, title and reminder patterns
MatchesNothing(text) ==
    /\ text.time = None
    /\ text.duration = None
    /\ text.title = None
    /\ text.reminder = None

\* C26: defaults.  A text that matches none of the four patterns gives the
\* title "Meeting", a duration of 60 minutes, a reminder of 30 minutes and the
\* start now + 1 hour, one day later exactly when the text holds "tomorrow".
C26_Defaults ==
    (IsSome(extracted) /\ MatchesNothing(Get(extracted).text)) =>
        /\ IsSome(Get(extracted).draft)
        /\ LET draft == Get(Get(extracted).draft)
               start == Get(extracted).at + 3600
                            + (IF Get(extracted).text.tomorrow THEN 86400 ELSE 0)
           IN  /\ draft.title = "Meeting"
               /\ draft.reminder_minutes = 30
               /\ draft.start_time = <<start \div 86400, (start % 86400) \div 3600,
                                       (start % 3600) \div 60, start % 60>>
               /\ FromIsoFormat(draft.end_time) - FromIsoFormat(draft.start_time) = 60 * 60

\* C26 witness: a text with "tomorrow" and no match, extracted late in the day
C26_Witness ==
    /\ IsSome(extracted)
    /\ MatchesNothing(Get(extracted).text)
    /\ Get(extracted).text.tomorrow
    /\ Get(extracted).at >= 23 * 3600
    /\ Get(Get(extracted).draft).start_time[1] = 2

\* C27: when a clock time is matched, the date of the start is the date of
\* now + 1 hour, one day later exactly when the text holds "tomorrow".
C27_StartDate ==
    (/\ IsSome(extracted)
     /\ IsSome(Get(extracted).text.time)
     /\ IsSome(Get(extracted).draft)) =>
        Get(Get(extracted).draft).start_time[1]
            = (Get(extracted).at + 3600) \div 86400
                  + (IF Get(extracted).text.tomorrow THEN 1 ELSE 0)

\* C27 witness: at 10:00:00 of day 0, "tomorrow at 2 PM" starts at 14:00:00 of day 1
C27_Witness ==
    /\ IsSome(extracted)
    /\ Get(extracted).at = 10 * 3600
    /\ Get(extracted).text.tomorrow
    /\ Get(extracted).text.time = Some([hour |-> 2, minute |-> None, pm |-> TRUE])
    /\ Get(extracted).draft # None
    /\ Get(Get(extracted).draft).start_time = <<1, 14, 0, 0>>

C29_NotificationTime ==
    (IsSome(extracted) /\ Get(extracted).response.success) =>
        LET data == Get(Get(extracted).response.data)
            draft == Get(Get(extracted).draft)
            start == FromIsoFormat(data.event.start_time)
        IN  /\ draft.reminder_minutes >= 0
            /\ FromIsoFormat(data.notification_time) = start - draft.reminder_minutes * 60
            /\ FromIsoFormat(data.notification_time) <= start
            /\ data.event.start_time = draft.start_time

\* C29 witness: a text with the reminder "1 hour" was planned, the notification
\* time one hour before the start
C29_Witness ==
    /\ IsSome(extracted)
    /\ Get(extracted).response.success
    /\ Get(extracted).text.reminder = Some([n |-> 1, unit |-> "hour"])
    /\ FromIsoFormat(Get(Get(extracted).response.data).notification_time)
           = FromIsoFormat(Get(Get(extracted).response.data).event.start_time) - 3600

C30Step(r) ==
    LET a == req[r]
        b == req'[r]
    IN  /\ (a.pc = "NOTIFY" /\ b # a) =>
               IF ~a.notification_required
               THEN /\ b.pc = "DONE"
                    /\ b.token = None
                    /\ b.gate = IdleCall
                    /\ Get(b.result).notification = None
               ELSE /\ a.token = None
                    /\ a.gate = IdleCall
                    /\ IsSome(b.token)
                    /\ IsSome(b.gate.input)
        /\ a.pc # "NOTIFY" => (b.token = a.token /\ b.gate.input = a.gate.input)

C31_DraftOfTheEvent ==
    \A r \in Requests :
        /\ IsSome(req[r].gate.input) =>
              LET draft == Get(req[r].gate.input)
                  event == Get(Get(req[r].planned).data).event
              IN  /\ draft.event_id = event.event_id
                  /\ draft.title = "Reminder: " \o event.title
                  /\ Len(draft.recipients) = 1
                  /\ draft.recipients[1].id = req[r].user_id
        /\ req[r].pc = "DONE" =>
              Get(Get(req[r].result).notification).recipients = <<req[r].user_id>>

\* C31 witness: the call for "team meeting" of user u2 is in DONE, its draft
\* titled "Reminder: team meeting", its notification sent to u2
C31_Witness ==
    \E r \in Requests :
        /\ req[r].pc = "DONE"
        /\ req[r].user_id = "u2"
        /\ Get(req[r].gate.input).title = "Reminder: team meeting"
        /\ Get(req[r].gate.input).event_id = Get(req[r].event).event_id
        /\ Get(Get(req[r].result).notification).recipients = <<"u2">>

\* the calls that leave PLAN in this step
Planning == {r \in Requests : req[r].pc = "PLAN" /\ req'[r].pc # "PLAN"}

\* C32: scheduled_events is append-only.  Across every step the list before is
\* a prefix of the list after, the list grows by at most one event and only in
\* the step of one call's planner, and every stored event has status "scheduled".
C32_AppendOnly ==
    [][/\ Len(scheduled_events') \in {Len(scheduled_events), Len(scheduled_events) + 1}
       /\ \A i \in DOMAIN scheduled_events : scheduled_events'[i] = scheduled_events[i]
       /\ Len(scheduled_events') = Len(scheduled_events) + 1 => Cardinality(Planning) = 1
       /\ \A i \in DOMAIN scheduled_events' : scheduled_events'[i].status = "scheduled"]_vars

\* C32 witness: two events are stored, the second appended after the first
C32_Witness ==
    /\ Len(scheduled_events) = 2
    /\ scheduled_events[1].user_id # scheduled_events[2].user_id
    /\ \A r \in Requests : req[r].pc # "PLAN"

\* C33: the event in the result of a call in DONE is in scheduled_events, with
\* the same id, start, end, title and user, and its user is the call's user.
C33_ReturnedEventIsStored ==
    \A r \in Requests :
        req[r].pc = "DONE" =>
            LET event == Get(Get(req[r].result).event)
            IN  /\ event.user_id = req[r].user_id
                /\ \E i \in DOMAIN scheduled_events :
                      /\ scheduled_events[i].event_id = event.event_id
                      /\ scheduled_events[i].start_time = event.start_time
                      /\ scheduled_events[i].end_time = event.end_time
                      /\ scheduled_events[i].title = event.title
                      /\ scheduled_events[i].user_id = event.user_id

\* C33 witness: the second of two stored events is the event a call in DONE returned
C33_Witness ==
    /\ Len(scheduled_events) = 2
    /\ \E r \in Requests :
          /\ req[r].pc = "DONE"
          /\ Get(Get(req[r].result).event) = scheduled_events[2]

\* the calls whose event was admitted through another Orchestrator object than
\* the one call q runs in, with the start s
AdmittedElsewhere(q, s) ==
    {r \in Requests : /\ InstanceOf(r) # InstanceOf(q)
                      /\ PlanSucceeded(req[r])
                      /\ req[r].start = s}

\* C34: scheduled_events is one list for all Orchestrator objects.  A call whose
\* text resolves to the start of an event admitted through another Orchestrator
\* object returns the conflict error.
C34_SharedAcrossInstances ==
    [][\A q \in Planning :
          AdmittedElsewhere(q, req'[q].start) # {} =>
              /\ req'[q].pc = "FAILED"
              /\ Get(req'[q].result).error = PlanConflictError]_vars

====
